---- MODULE Spec2Model ----
(***************************************************************************)
(* A model of the recommendation adapters of                               *)
(* opends/tinkoff_stories_recsys/models.py: the batched top-k pipeline of  *)
(* StoriesRecModel and PopularModel (exclusion mask, masking by a -1.0     *)
(* sentinel, torch.topk), PopularModel's scores, ALSModel.model_predict    *)
(* and the operations that raise NotImplementedError.                      *)
(*                                                                         *)
(* Conventions.  A pandas frame is a sequence of records (its rows, in     *)
(* row order).  An optional value is a sequence of length 0 (None, NaN) or *)
(* 1 (the value).  A score is an integer numerator over the denominator    *)
(* score_den of the call (10 for the learned model's tables, count_sum +   *)
(* beta for the popularity model), so that the comparisons torch.topk and  *)
(* sort_values make are exact; -1.0 is then -score_den.                    *)
(***************************************************************************)
EXTENDS Integers, Sequences, FiniteSets, TLC

\* ------------------------------------------------------------------ bounds

\* Longest exclusion log (rows) a call is given.
MaxLog == 2
\* Largest k a call asks for.
MaxK == 3

\* ------------------------------------------------------------- input sets

UserIds == {1, 2, 3}
ItemIds == {1, 2, 3, 4}

\* id_users of a call: no user, two users against sorted order, and three
\* users (with a batch size of 2 the last batch is smaller).
UserLists == {<<>>, <<2, 1>>, <<1, 2, 3>>}
\* id_items of a call: the spec's three items, and two items out of order.
ItemLists == {<<1, 2, 3>>, <<2, 1>>}
\* Rows an exclusion log can hold: two items of user 1, one of user 2 and
\* none of user 3.  With one user per batch the other user's rows are rows
\* of a user outside the batch; item 3 is outside id_items = <<2, 1>>.
LogRows == {[user_id |-> 1, item_id |-> 1], [user_id |-> 1, item_id |-> 2],
            [user_id |-> 2, item_id |-> 3]}
\* config.valid_batch_size: one user per batch; two, which is at least the
\* number of users for two users and leaves a smaller last batch for three.
BatchSizes == {1, 2}
\* How a selection primitive orders equal scores: lowest position first or
\* highest position first (implementation-defined, fixed for a build).
TiePolicies == {"first", "last"}

Logs == UNION {[1..n -> LogRows] : n \in 0..MaxLog}

\* ---------------------------------------------------------------- helpers

None == <<>>
Some(x) == <<x>>
NaN == <<>>
isna(cell) == cell = NaN

Min(a, b) == IF a < b THEN a ELSE b
Range(s) == {s[j] : j \in 1..Len(s)}

RECURSIVE Sum(_, _)
Sum(f, S) == IF S = {} THEN 0
             ELSE LET x == CHOOSE y \in S : TRUE IN f[x] + Sum(f, S \ {x})

RECURSIVE SortedSeq(_)
\* The elements of a set of integers in ascending order.
SortedSeq(S) == IF S = {} THEN <<>>
                ELSE LET m == CHOOSE x \in S : \A y \in S : x <= y
                     IN <<m>> \o SortedSeq(S \ {m})

PairLess(a, b) == a[1] < b[1] \/ (a[1] = b[1] /\ a[2] < b[2])

RECURSIVE SortedPairs(_)
SortedPairs(S) == IF S = {} THEN <<>>
                  ELSE LET m == CHOOSE x \in S : \A y \in S \ {x} : PairLess(x, y)
                       IN <<m>> \o SortedPairs(S \ {m})

\* ----------------------------------------------------- selection by score

\* The position a descending selection takes next among the positions S of
\* row: the largest value, equal values by the tie policy.
Best(row, S, tie) ==
    CHOOSE p \in S : \A q \in S \ {p} :
        \/ row[p] > row[q]
        \/ row[p] = row[q] /\ (IF tie = "first" THEN p < q ELSE p > q)

RECURSIVE ArgSortFrom(_, _, _)
ArgSortFrom(row, S, tie) ==
    IF S = {} THEN <<>>
    ELSE LET p == Best(row, S, tie)
         IN <<p>> \o ArgSortFrom(row, S \ {p}, tie)

\* Positions of row by descending value.
ArgSortDesc(row, tie) == ArgSortFrom(row, DOMAIN row, tie)

\* ------------------------------------------------------------ pandas steps

SameKey(a, b) == a.user_id = b.user_id /\ a.item_id = b.item_id

\* GroupByCount without the groupby: the rows as given.
GroupWithoutCount(log) ==
    [n \in 1..Len(log) |->
        [user_id |-> log[n].user_id, item_id |-> log[n].item_id, relevance |-> 1]]

\* df.groupby(['user_id', 'item_id'])[['relevance']].count().reset_index():
\* one row per distinct (user_id, item_id), in key order, relevance = the
\* number of rows of the pair.
GroupByCount(log) ==
    LET keys == SortedPairs({<<log[j].user_id, log[j].item_id>> : j \in 1..Len(log)})
    IN [n \in 1..Len(keys) |->
           [user_id |-> keys[n][1], item_id |-> keys[n][2],
            relevance |-> Cardinality({j \in 1..Len(log) :
                              <<log[j].user_id, log[j].item_id>> = keys[n]})]]

\* df[df['user_id'].isin(batch_id_users)]
FilterIsin(frame, batch_id_users) ==
    SelectSeq(frame, LAMBDA r : r.user_id \in Range(batch_id_users))

\* DataFrame.pivot raises "Index contains duplicate entries, cannot reshape"
\* when two rows share (index, columns).
HasDuplicateEntries(frame) ==
    \E a, b \in 1..Len(frame) : a < b /\ SameKey(frame[a], frame[b])

\* df.pivot(index='user_id', columns='item_id', values='relevance') of a
\* frame without duplicate entries: the wide frame over the sorted user ids
\* and the sorted item ids of the frame, NaN where the frame has no row.
pivot(frame) ==
    LET us == {frame[j].user_id : j \in 1..Len(frame)}
        is == {frame[j].item_id : j \in 1..Len(frame)}
    IN [index |-> SortedSeq(us), columns |-> SortedSeq(is),
        values |-> [p \in us \X is |->
            IF \E j \in 1..Len(frame) : <<frame[j].user_id, frame[j].item_id>> = p
            THEN Some(frame[CHOOSE j \in 1..Len(frame) :
                          <<frame[j].user_id, frame[j].item_id>> = p].relevance)
            ELSE NaN]]

\* reindex that leaves the rows in the pivot's (sorted) order.
reindex_columns_only(wide, index, columns) ==
    [index |-> SortedSeq(Range(index)), columns |-> columns,
     values |-> [p \in Range(index) \X Range(columns) |->
         IF p \in DOMAIN wide.values THEN wide.values[p] ELSE NaN]]

\* wide.reindex(index=..., columns=...): the labels asked for, in the order
\* asked for; NaN for a label the wide frame does not have.
reindex(wide, index, columns) ==
    [index |-> index, columns |-> columns,
     values |-> [p \in Range(index) \X Range(columns) |->
         IF p \in DOMAIN wide.values THEN wide.values[p] ELSE NaN]]

\* (~wide.isna()).astype(np.int32).values
NotNaValues(wide) ==
    [r \in 1..Len(wide.index) |-> [c \in 1..Len(wide.columns) |->
        IF isna(wide.values[<<wide.index[r], wide.columns[c]>>]) THEN 0 ELSE 1]]

\* np.zeros((rows, cols), dtype=np.int32)
zeros(rows, cols) == [r \in 1..rows |-> [c \in 1..cols |-> 0]]

PivotError == "ValueError: Index contains duplicate entries, cannot reshape"
TopKError == "RuntimeError: selected index k out of range"
LengthError == "ValueError: All arrays must be of the same length"
NoneError == "AttributeError: 'NoneType' object has no attribute 'sum'"

\* DropMask without the short cut for a batch with no row of the log.
DropMaskAlwaysPivot(grouped, batch_id_users, items) ==
    LET df_log_e == FilterIsin(grouped, batch_id_users)
    IN IF HasDuplicateEntries(df_log_e)
       THEN [err |-> PivotError, pivoted |-> TRUE, mask |-> <<>>]
       ELSE [err |-> "none", pivoted |-> TRUE,
             mask |-> NotNaValues(reindex(pivot(df_log_e), batch_id_users, items))]

\* The exclusion mask of one batch (both adapters build it the same way):
\* the rows of the grouped log of the batch's users; no such row: zeros,
\* without pivoting; otherwise pivot, reindex to (batch users x candidate
\* items) and mark the cells that are not NaN.
DropMask(grouped, batch_id_users, items) ==
    LET df_log_e == FilterIsin(grouped, batch_id_users)
    IN IF Len(df_log_e) = 0
       THEN [err |-> "none", pivoted |-> FALSE,
             mask |-> zeros(Len(batch_id_users), Len(items))]
       ELSE IF HasDuplicateEntries(df_log_e)
       THEN [err |-> PivotError, pivoted |-> TRUE, mask |-> <<>>]
       ELSE [err |-> "none", pivoted |-> TRUE,
             mask |-> NotNaValues(reindex(pivot(df_log_e), batch_id_users, items))]

\* ------------------------------------------------------- masking and top-k

\* The masking with 0.0 in place of -1.0.
MaskScoresZero(drop_mask, raw, den) ==
    [r \in DOMAIN raw |-> [c \in DOMAIN raw[r] |->
        (1 - drop_mask[r][c]) * raw[r][c]]]

\* drop_mask * _minus_one + (1.0 - drop_mask) * user_item, with -1.0 as
\* -den over the denominator den.
MaskScores(drop_mask, raw, den) ==
    [r \in DOMAIN raw |-> [c \in DOMAIN raw[r] |->
        drop_mask[r][c] * (-den) + (1 - drop_mask[r][c]) * raw[r][c]]]

\* The k largest values' positions, in position order (sorted=False).
topk_unsorted(row, kk, tie) == SortedSeq(Range(SubSeq(ArgSortDesc(row, tie), 1, kk)))

\* torch.topk(row, k): the positions of the k largest values, largest
\* first (k <= Len(row); torch raises otherwise).
torch_topk(row, kk, tie) == SubSeq(ArgSortDesc(row, tie), 1, kk)

RECURSIVE Flatten(_)
Flatten(rows) == IF rows = <<>> THEN <<>> ELSE Head(rows) \o Flatten(Tail(rows))

\* (user_id for user_id in batch_id_users for _ in range(n))
RepeatEach(batch_id_users, n) ==
    Flatten([r \in 1..Len(batch_id_users) |-> [j \in 1..n |-> batch_id_users[r]]])

\* ------------------------------------------------------------------ state

VARIABLES
    adapter,            \* the class of the adapter instance
    valid_batch_size,   \* config.valid_batch_size
    topk_tie,           \* torch.topk's order of equal scores
    sort_tie,           \* sort_values' order of equal scores
    weights,            \* StoriesRecModel: the scores its embeddings give
    train_log,          \* PopularModel: the log model_train was given
    items_popularity,   \* PopularModel.items_popularity (None before training)
    avg_num_items,      \* PopularModel.avg_num_items (None before training)
    pc,                 \* idle, loop (inside model_predict_top_k), done, raised
    arg_log,            \* df_log_exclude as passed
    id_users,           \* id_users as passed
    id_items,           \* id_items as passed
    k,                  \* k as passed
    df_log_exclude,     \* df_log_exclude after the groupby
    a_items,            \* np.array(id_items): the candidate items of the loop
    item_predict_row,   \* PopularModel: the candidates' scores (numerators)
    score_den,          \* the denominator of the call's scores
    ix_start,           \* the loop variable
    batch_id_users,     \* the users of the last batch
    t_drop_mask,        \* the mask of the last batch
    pivot_called,       \* whether the last batch called DataFrame.pivot
    user_item,          \* the masked scores of the last batch
    nn_predict,         \* the top-k positions of the last batch
    s_predicted_users,
    s_predicted_items,
    err,                \* the exception the call raised ("none": none)
    result,             \* the table returned (None: none)
    called,             \* the operation called last
    training,           \* StoriesRecModel: nn.Module.training
    exclude_seen_items, \* config.exclude_seen_items
    pop_norm,           \* config.pop_norm
    df_item_freq,       \* ALSModel.df_item_freq (None before training)
    item_index,         \* ALSModel.item_index
    user_index,         \* ALSModel.user_index
    item_map,           \* ALSModel.item_map
    user_map,           \* ALSModel.user_map
    rank_scores,        \* ALSModel: what model.rank_items scores an item
    df_log_predict,     \* model_predict: df_log_predict as passed
    for_predict,        \* ALSModel.model_predict: the items asked per user
    predict_ix,         \* ALSModel.model_predict: users done
    predicted_rows,     \* ALSModel.model_predict: predicted_rows
    user_encoder,       \* StoriesRecModel.user_encoder: {1: 1, ..., n: n}, as n
    item_encoder,       \* StoriesRecModel.item_encoder: {1: 1, ..., n: n}, as n
    t_item_id,          \* model_predict_top_k: the item indexes, as int16
    t_user_id,          \* model_predict_top_k: the last batch's user indexes
    embed,              \* a MixedEmbedding (embed_user): its attributes
    h_item,             \* what MixedEmbedding.forward returned last (None: none)
    max_epoch,          \* config.max_epoch
    valid_fn,           \* StoriesRecModel.valid_fn is set (FALSE: None)
    len_data_loader,    \* model_train: len(data_loader)
    n_epoch,            \* model_train: the loop variable
    requires_grad,      \* embed_user.embedding.requires_grad
    metrics,            \* model_train: metrics
    valid_calls,        \* model_train: calls of valid_fn so far
    trx_dropout,        \* DropoutTrx.trx_dropout
    seq_len,            \* get_idx: seq_len
    idx                 \* get_idx: the returned array

configVars == <<adapter, valid_batch_size, topk_tie, sort_tie, weights>>
trainVars == <<train_log, items_popularity, avg_num_items>>
argVars == <<arg_log, id_users, id_items, k>>
loopVars == <<df_log_exclude, a_items, item_predict_row, score_den, ix_start,
              batch_id_users, t_drop_mask, pivot_called, user_item, nn_predict,
              s_predicted_users, s_predicted_items>>
storiesVars == <<training, exclude_seen_items>>
alsVars == <<pop_norm, df_item_freq, item_index, user_index, item_map, user_map,
             rank_scores>>
predictVars == <<df_log_predict, for_predict, predict_ix, predicted_rows>>
encoderVars == <<user_encoder, item_encoder>>
indexVars == <<t_item_id, t_user_id>>
embedVars == <<embed, h_item>>
epochVars == <<max_epoch, valid_fn, len_data_loader, n_epoch, requires_grad, metrics,
              valid_calls>>
dropoutVars == <<trx_dropout, seq_len, idx>>
restVars == <<encoderVars, embedVars, epochVars, dropoutVars>>
otherVars == <<indexVars, restVars>>
vars == <<configVars, trainVars, argVars, loopVars, pc, err, result, called,
          storiesVars, alsVars, predictVars, otherVars>>

\* ---------------------------------------------------------- MixedEmbedding

\* The sizes a MixedEmbedding is built with, and the batch lengths.
FeatureSizes == {0, 1, 3}
HiddenSizes == {1, 3, 32}
BatchLengths == {1, 2}

\* The arguments of MixedEmbedding.__init__ (item_count and norm do not
\* bear on the widths).
EmbedArgs(ofa, learn, fixed, hidden, pretrained) ==
    [one_for_all_size |-> ofa, learn_embedding_size |-> learn,
     fixed_vector_size |-> fixed, hidden_size |-> hidden,
     pretrained_embedding_size |-> pretrained]

\* self.feature_count
FeatureCount(a) ==
    (IF a.one_for_all_size > 0 THEN 1 ELSE 0)
    + (IF a.learn_embedding_size > 0 \/ a.pretrained_embedding_size # 0 THEN 1 ELSE 0)
    + (IF a.fixed_vector_size > 0 THEN 1 ELSE 0)

\* MixedEmbedding.use_transformation
use_transformation(m) ==
    \/ m.feature_count > 1
    \/ m.fixed_vector_size > 0
    \/ m.pretrained_embedding_size > 0 /\ m.pretrained_embedding_size # m.hidden_size

\* MixedEmbedding.__init__: the attributes of the module, with the width
\* of the one_for_all parameter, the embedding_dim of the embedding and the
\* in_features of the transformation (None where it is not created).
MixedEmbeddingNew(a) ==
    LET fc == FeatureCount(a)
        ofa == IF fc = 0 THEN 32 ELSE a.one_for_all_size
        has_embedding == a.learn_embedding_size > 0 \/ a.pretrained_embedding_size > 0
        e_dim == IF a.pretrained_embedding_size > 0 THEN a.pretrained_embedding_size
                 ELSE IF fc = 1 THEN a.hidden_size ELSE a.learn_embedding_size
        attrs == [a EXCEPT !.one_for_all_size = ofa] @@ [feature_count |-> fc]
    IN attrs @@
       [one_for_all |-> IF ofa > 0
                        THEN Some(IF fc = 1 THEN a.hidden_size ELSE ofa) ELSE None,
        embedding |-> IF has_embedding THEN Some(e_dim) ELSE None,
        transformation |->
            IF use_transformation(attrs)
            THEN Some((IF ofa > 0 THEN ofa ELSE 0)
                      + (IF has_embedding
                         THEN (IF a.pretrained_embedding_size > 0
                               THEN a.pretrained_embedding_size
                               ELSE a.learn_embedding_size)
                         ELSE 0)
                      + (IF a.fixed_vector_size > 0 THEN a.fixed_vector_size ELSE 0))
            ELSE None]

MatMulError == "RuntimeError: mat1 and mat2 shapes cannot be multiplied"

\* MixedEmbedding.forward on n ids (fixed_vectors of width
\* fixed_vector_size): the width of torch.cat(v_item, dim=1) and the shape
\* of the h_item returned; the Linear raises on another width than its
\* in_features, the normalisation keeps the shape.
forward(m, n) ==
    LET cat == (IF m.one_for_all_size > 0 THEN m.one_for_all[1] ELSE 0)
               + (IF m.learn_embedding_size > 0 \/ m.pretrained_embedding_size > 0
                  THEN m.embedding[1] ELSE 0)
               + (IF m.fixed_vector_size > 0 THEN m.fixed_vector_size ELSE 0)
    IN IF use_transformation(m)
       THEN IF cat # m.transformation[1]
            THEN [err |-> MatMulError, cat |-> cat, rows |-> 0, width |-> 0]
            ELSE [err |-> "none", cat |-> cat, rows |-> n, width |-> m.hidden_size]
       ELSE [err |-> "none", cat |-> cat, rows |-> n, width |-> cat]

\* ------------------------------------------------- StoriesRecModel scores

\* What self.activation(torch.mm(h_user, h_item^T)) gives for each (user,
\* item): tenths in [0, 1].  The embeddings are drawn at random at
\* construction and trained elsewhere; the tables are the spec's scenario
\* (0.9, 0.5, 0.1 for items 1, 2, 3), all scores equal, and scores that
\* differ by user.
WeightTables ==
    {[den |-> 10, score |-> [u \in UserIds |-> <<9, 5, 1, 3>>]],
     [den |-> 10, score |-> [u \in UserIds |-> <<5, 5, 5, 5>>]],
     [den |-> 10, score |-> [u \in UserIds |->
         IF u = 1 THEN <<1, 5, 9, 3>> ELSE IF u = 2 THEN <<9, 9, 1, 1>>
         ELSE <<0, 10, 5, 5>>]]}

\* Activation.forward in tenths. 'cosine': (t + 1.0) / 2.0 for t in fifths
\* (the embeddings are normalised, so t is in [-1, 1]); 'sigmoid':
\* torch.sigmoid(t) for an integer t, rounded to tenths, which float32
\* saturates to 0.0 and 1.0.
Activations == {"cosine", "sigmoid"}
PreActivations(activation) == IF activation = "cosine" THEN -5..5 ELSE -6..6
Activation(activation, t) ==
    IF activation = "cosine" THEN t + 5
    ELSE IF t <= -3 THEN 0
    ELSE IF t >= 3 THEN 10
    ELSE <<1, 3, 5, 7, 9>>[t + 3]

\* batch_predict's user_item before masking, one row per batch user.
StoriesScores(batch, items) ==
    [r \in 1..Len(batch) |-> [c \in 1..Len(items) |->
        weights[1].score[batch[r]][items[c]]]]

\* ----------------------------------------------------------- PopularModel

alpha == 1000
beta == 1000

\* Training logs: the spec's scenario (item 1 with ten interactions of
\* relevance 1, item 2 seen with relevance 0 only), and two short logs with
\* one and two rows per user.
TrainLogs ==
    {[n \in 1..11 |-> IF n <= 10
          THEN [user_id |-> ((n - 1) % 3) + 1, item_id |-> 1, relevance |-> 1]
          ELSE [user_id |-> 1, item_id |-> 2, relevance |-> 0]],
     <<[user_id |-> 1, item_id |-> 1, relevance |-> 1],
       [user_id |-> 2, item_id |-> 2, relevance |-> 1],
       [user_id |-> 3, item_id |-> 1, relevance |-> 1]>>,
     <<[user_id |-> 1, item_id |-> 3, relevance |-> 1],
       [user_id |-> 1, item_id |-> 2, relevance |-> 1],
       [user_id |-> 2, item_id |-> 3, relevance |-> 1],
       [user_id |-> 2, item_id |-> 1, relevance |-> 0]>>}

\* df_log[df_log['relevance'].eq(1)].groupby('item_id')['user_id'].count():
\* the items with a row of relevance 1, each with the number of such rows.
CountRelevant(df_log) ==
    LET rows == SelectSeq(df_log, LAMBDA r : r.relevance = 1)
    IN [i \in {rows[j].item_id : j \in 1..Len(rows)} |->
           Cardinality({j \in 1..Len(rows) : rows[j].item_id = i})]

\* np.ceil(df_log.groupby('user_id')['item_id'].count().mean())
AvgNumItems(df_log) ==
    LET users == {df_log[j].user_id : j \in 1..Len(df_log)}
        n == Cardinality(users)
    IN (Len(df_log) + n - 1) \div n

\* _get_item_scores: (items_popularity + alpha) / (count_sum + beta), as
\* numerators over the denominator count_sum + beta.
CountSum == Sum(items_popularity[1], DOMAIN items_popularity[1])
ItemScoresDen == CountSum + beta
ItemScoreNum(count) == count + alpha
get_item_scores == [i \in DOMAIN items_popularity[1] |-> ItemScoreNum(items_popularity[1][i])]

\* _get_item_scores().reindex(index=id_items).fillna(0.0)
ReindexFillna(scores, items) ==
    [j \in 1..Len(items) |-> IF items[j] \in DOMAIN scores THEN scores[items[j]] ELSE 0]

\* The candidate count without k.
CandidateCountAvgOnly(kk, avg) == avg

\* int(k + self.avg_num_items): how many of the best items stay candidates.
CandidateCount(kk, avg) == kk + avg

\* sort_values(ascending=False).iloc[:n].index: the positions of the n best.
TopPositions(row, n) == SubSeq(ArgSortDesc(row, sort_tie), 1, Min(n, Len(row)))

\* ------------------------------------------------------ encoder indexes

\* encoder.get(id, 0) of the encoder {1: 1, ..., n: n}.
EncoderGet(encoder, id) == IF id \in 1..encoder THEN id ELSE 0

\* ndarray.astype(np.int16): the value modulo 2^16, in [-2^15, 2^15).
Int16(x) == ((x + 32768) % 65536) - 32768

\* ndarray.astype(np.int32): every index the model can hold is below 2^31
\* and is kept.
Int32(x) == x

\* np.array([self.item_encoder.get(item_id, 0) for item_id in id_items])
\*     .astype(np.int16)
ItemIndexes(items) ==
    [j \in 1..Len(items) |-> Int16(EncoderGet(item_encoder, items[j]))]

\* np.array([self.user_encoder.get(user_id, 0) for user_id in batch_id_users])
\*     .astype(np.int32)
UserIndexes(batch) ==
    [j \in 1..Len(batch) |-> Int32(EncoderGet(user_encoder, batch[j]))]

\* ------------------------------------------------- model_predict_top_k

\* id_users[ix:ix + valid_batch_size]
BatchUsers(users, ix, size) == SubSeq(users, ix + 1, Min(ix + size, Len(users)))

\* user_item before masking: batch_predict's scores, or item_predict_row
\* expanded to one row per batch user.
RawScores(batch) ==
    IF adapter = "StoriesRecModel" THEN StoriesScores(batch, a_items)
    ELSE [r \in 1..Len(batch) |-> item_predict_row]

\* One pass of the loop body for a batch: the mask, the masked scores and
\* torch.topk, which raises when k exceeds the number of candidates.
BatchStep(batch) ==
    LET dm == DropMask(df_log_exclude, batch, a_items)
    IN IF dm.err # "none"
       THEN [err |-> dm.err, pivoted |-> dm.pivoted, mask |-> <<>>,
             user_item |-> <<>>, nn_predict |-> <<>>]
       ELSE LET masked == MaskScores(dm.mask, RawScores(batch), score_den)
            IN IF k > Len(a_items)
               THEN [err |-> TopKError, pivoted |-> dm.pivoted, mask |-> dm.mask,
                     user_item |-> masked, nn_predict |-> <<>>]
               ELSE [err |-> "none", pivoted |-> dm.pivoted, mask |-> dm.mask,
                     user_item |-> masked,
                     nn_predict |-> [r \in 1..Len(batch) |->
                                        torch_topk(masked[r], k, topk_tie)]]

\* A user column with one row per batch user.
UserRepeatOnce(nn) == 1

\* How many rows of the user column a batch user gets: range(k) in
\* StoriesRecModel, range(nn_predict.shape[1]) in PopularModel.
UserRepeat(nn) == IF adapter = "StoriesRecModel" THEN k ELSE Len(nn[1])

\* a_items[item_indexes].tolist()
TakeItems(items, item_indexes) ==
    [j \in 1..Len(item_indexes) |-> items[item_indexes[j]]]

\* pd.DataFrame({'user_id': ..., 'item_id': ...}) raises when the columns
\* differ in length.
DataFrame(users, items) ==
    IF Len(users) # Len(items) THEN [err |-> LengthError, table |-> None]
    ELSE [err |-> "none",
          table |-> Some([j \in 1..Len(users) |->
                             [user_id |-> users[j], item_id |-> items[j]]])]

\* No call of model_predict_top_k or model_predict has been made.
NoCall ==
    /\ pc = "idle"
    /\ arg_log = <<>> /\ id_users = <<>> /\ id_items = <<>> /\ k = 0
    /\ df_log_exclude = <<>> /\ a_items = <<>> /\ item_predict_row = <<>>
    /\ score_den = 0 /\ ix_start = 0 /\ batch_id_users = <<>>
    /\ t_drop_mask = <<>> /\ pivot_called = FALSE /\ user_item = <<>>
    /\ nn_predict = <<>> /\ s_predicted_users = <<>> /\ s_predicted_items = <<>>
    /\ df_log_predict = <<>> /\ for_predict = <<>> /\ predict_ix = 0
    /\ predicted_rows = <<>>
    /\ err = "none"
    /\ result = None
    /\ called = "__init__"

\* 0.5 as a double: num / 2^exp.
Dyadic(num, exp) == [num |-> num, exp |-> exp]

\* DropoutTrx(trx_dropout = 0.5), get_idx not called yet.
NoDropout ==
    /\ trx_dropout = Dyadic(1, 1)
    /\ seq_len = 0
    /\ idx = <<>>

\* StoriesRecModel.__init__ sets valid_fn to None; model_train has not run
\* (an Embedding has no requires_grad of its own before it is assigned; its
\* weight starts with requires_grad True).
NoTraining ==
    /\ valid_fn = FALSE
    /\ len_data_loader = 0 /\ n_epoch = 0
    /\ requires_grad = TRUE
    /\ metrics = <<>> /\ valid_calls = 0

\* The encoders StoriesRecModel.__init__ is given know every id of UserIds
\* and ItemIds; no index has been computed.
OtherConstructed ==
    /\ user_encoder = 3 /\ item_encoder = 4
    /\ t_item_id = <<>> /\ t_user_id = <<>>
    /\ embed = Some(MixedEmbeddingNew(EmbedArgs(0, 3, 0, 3, 0)))
    /\ h_item = None
    /\ max_epoch = 1
    /\ NoTraining
    /\ NoDropout

\* PopularModel.__init__
PopularConstructed ==
    /\ train_log = <<>>
    /\ items_popularity = None
    /\ avg_num_items = None

\* ALSModel.__init__
ALSConstructed ==
    /\ df_item_freq = None
    /\ item_index = None /\ user_index = None
    /\ item_map = None /\ user_map = None

\* One adapter, a StoriesRecModel or a PopularModel, right after construction.
Init ==
    /\ adapter \in {"StoriesRecModel", "PopularModel"}
    /\ valid_batch_size \in BatchSizes
    /\ topk_tie \in TiePolicies
    /\ sort_tie \in (IF adapter = "PopularModel" THEN TiePolicies ELSE {"first"})
    /\ weights \in (IF adapter = "StoriesRecModel"
                    THEN {Some(w) : w \in WeightTables} ELSE {None})
    /\ training = TRUE /\ exclude_seen_items = FALSE
    /\ pop_norm = FALSE /\ rank_scores = <<>>
    /\ PopularConstructed
    /\ ALSConstructed
    /\ NoCall
    /\ OtherConstructed

\* PopularModel.model_train (config.use_low_freq_train_items,
\* use_mean_relevance and use_item_freq_predict off: the counting branch).
PopularModelTrain(df_log) ==
    /\ pc = "idle"
    /\ called' = "PopularModel.model_train"
    /\ train_log' = df_log
    /\ items_popularity' = Some(CountRelevant(df_log))
    /\ avg_num_items' = Some(AvgNumItems(df_log))
    /\ UNCHANGED otherVars
    /\ UNCHANGED <<configVars, argVars, loopVars, pc, err, result, storiesVars,
                   alsVars, predictVars>>

\* StoriesRecModel.model_predict_top_k up to the loop.
StoriesPredictTopKBegin(log, users, items, kk) ==
    /\ pc = "idle"
    /\ called' = "StoriesRecModel.model_predict_top_k"
    /\ training' = FALSE
    /\ arg_log' = log /\ id_users' = users /\ id_items' = items /\ k' = kk
    /\ df_log_exclude' = GroupByCount(log)
    /\ a_items' = items
    /\ score_den' = weights[1].den
    /\ t_item_id' = ItemIndexes(items)
    /\ ix_start' = 0
    /\ pc' = "loop"
    /\ UNCHANGED <<restVars, t_user_id>>
    /\ UNCHANGED <<configVars, trainVars, item_predict_row, batch_id_users,
                   t_drop_mask, pivot_called, user_item, nn_predict,
                   s_predicted_users, s_predicted_items, err, result,
                   exclude_seen_items, alsVars, predictVars>>

\* PopularModel.model_predict_top_k up to the loop: the supplied items are
\* scored, ranked once, and the best int(k + avg_num_items) stay candidates.
PopularPredictTopKBegin(log, users, items, kk) ==
    /\ pc = "idle"
    /\ called' = "PopularModel.model_predict_top_k"
    /\ IF items_popularity = None
       THEN /\ pc' = "raised"
            /\ err' = NoneError
            /\ UNCHANGED <<argVars, loopVars>>
       ELSE LET row == ReindexFillna(get_item_scores, items)
                top == TopPositions(row, CandidateCount(kk, avg_num_items[1]))
            IN /\ arg_log' = log /\ id_users' = users /\ id_items' = items
               /\ k' = kk
               /\ df_log_exclude' = GroupByCount(log)
               /\ a_items' = TakeItems(items, top)
               /\ item_predict_row' = TakeItems(row, top)
               /\ score_den' = ItemScoresDen
               /\ ix_start' = 0
               /\ pc' = "loop"
               /\ UNCHANGED <<batch_id_users, t_drop_mask, pivot_called, user_item,
                              nn_predict, s_predicted_users, s_predicted_items, err>>
    /\ UNCHANGED otherVars
    /\ UNCHANGED <<configVars, trainVars, result, storiesVars, alsVars, predictVars>>

\* One pass of the loop over range(0, len(id_users), valid_batch_size).
PredictTopKBatch ==
    /\ pc = "loop"
    /\ ix_start < Len(id_users)
    /\ LET batch == BatchUsers(id_users, ix_start, valid_batch_size)
           st == BatchStep(batch)
       IN /\ batch_id_users' = batch
          /\ t_user_id' = IF adapter = "StoriesRecModel" THEN UserIndexes(batch)
                          ELSE t_user_id
          /\ t_drop_mask' = st.mask
          /\ pivot_called' = st.pivoted
          /\ user_item' = st.user_item
          /\ nn_predict' = st.nn_predict
          /\ IF st.err # "none"
             THEN /\ pc' = "raised"
                  /\ err' = st.err
                  /\ UNCHANGED <<ix_start, s_predicted_users, s_predicted_items>>
             ELSE /\ s_predicted_users' =
                        s_predicted_users \o RepeatEach(batch, UserRepeat(st.nn_predict))
                  /\ s_predicted_items' =
                        s_predicted_items \o TakeItems(a_items, Flatten(st.nn_predict))
                  /\ ix_start' = ix_start + valid_batch_size
                  /\ UNCHANGED <<pc, err>>
    /\ UNCHANGED <<restVars, t_item_id>>
    /\ UNCHANGED <<configVars, trainVars, argVars, df_log_exclude, a_items,
                   item_predict_row, score_den, result, called, storiesVars,
                   alsVars, predictVars>>

\* The loop is over: return pd.DataFrame(...).
PredictTopKReturn ==
    /\ pc = "loop"
    /\ ix_start >= Len(id_users)
    /\ LET df == DataFrame(s_predicted_users, s_predicted_items)
       IN /\ err' = df.err
          /\ result' = df.table
          /\ pc' = IF df.err = "none" THEN "done" ELSE "raised"
    /\ UNCHANGED otherVars
    /\ UNCHANGED <<configVars, trainVars, argVars, loopVars, called, storiesVars,
                   alsVars, predictVars>>

Ks == 1..MaxK

Next ==
    \/ adapter = "PopularModel" /\ \E df_log \in TrainLogs : PopularModelTrain(df_log)
    \/ \E log \in Logs, users \in UserLists, items \in ItemLists, kk \in Ks :
           \/ adapter = "StoriesRecModel" /\ StoriesPredictTopKBegin(log, users, items, kk)
           \/ adapter = "PopularModel" /\ PopularPredictTopKBegin(log, users, items, kk)
    \/ PredictTopKBatch
    \/ PredictTopKReturn

Spec == Init /\ [][Next]_vars

\* ------------------------------------------------------------ rationals

\* A relevance is an exact fraction [num, den], den > 0, in lowest terms.
Abs(x) == IF x < 0 THEN -x ELSE x

RECURSIVE Gcd(_, _)
Gcd(a, b) == IF b = 0 THEN a ELSE Gcd(b, a % b)

Rat(n, d) == LET g == Gcd(Abs(n), d) IN [num |-> n \div g, den |-> d \div g]
RatAdd(a, b) == Rat(a.num * b.den + b.num * a.den, a.den * b.den)
RatHalf(a) == Rat(a.num, a.den + a.den)
Zero == Rat(0, 1)
One == Rat(1, 1)

\* ---------------------------------------------------------------- ALSModel

\* Longest df_log_predict a call of model_predict is given.
MaxTarget == 2

\* Training logs of ALSModel: users 1 and 2 and items 1 and 2 are known
\* after training, user 3 and items 3 and 4 are not.
ALSTrainLogs ==
    {<<[user_id |-> 1, item_id |-> 1, relevance |-> 1],
       [user_id |-> 1, item_id |-> 2, relevance |-> 0],
       [user_id |-> 2, item_id |-> 1, relevance |-> 1]>>,
     <<[user_id |-> 2, item_id |-> 2, relevance |-> 1],
       [user_id |-> 1, item_id |-> 2, relevance |-> 0],
       [user_id |-> 2, item_id |-> 1, relevance |-> 1]>>}

\* Rows of df_log_predict: both ids known, the user unknown, the item
\* unknown, both unknown.
TargetRows == {[user_id |-> 1, item_id |-> 1], [user_id |-> 1, item_id |-> 2],
               [user_id |-> 3, item_id |-> 1], [user_id |-> 1, item_id |-> 3],
               [user_id |-> 3, item_id |-> 3]}
Targets == UNION {[1..n -> TargetRows] : n \in 0..MaxTarget}

\* What the fitted factorization scores an item, in halves: model.rank_items
\* is implicit's (the dot product of the factors), any value to this code.
RankTables == {<<2, -1>>, <<0, 0>>, <<-2, 1>>}

\* Series.unique(): the values in order of first appearance.
Unique(column) ==
    LET first == {j \in 1..Len(column) : \A i \in 1..(j - 1) : column[i] # column[j]}
        at == SortedSeq(first)
    IN [n \in 1..Len(at) |-> column[at[n]]]

Column(frame, name) == [j \in 1..Len(frame) |-> frame[j][name]]

\* enumerate() giving every key the position 0.
EnumerateMapZero(index) == [x \in Range(index) |-> 0]

\* {k: v for v, k in enumerate(index)}
EnumerateMap(index) ==
    [x \in Range(index) |-> (CHOOSE n \in 1..Len(index) : index[n] = x) - 1]

\* df_log.groupby('item_id')['relevance'].mean()
ItemFreq(df_log) ==
    [i \in Range(Column(df_log, "item_id")) |->
        LET rows == {j \in 1..Len(df_log) : df_log[j].item_id = i}
        IN Rat(Sum([j \in rows |-> df_log[j].relevance], rows), Cardinality(rows))]

\* df_log_predict.groupby('user_id')['item_id'].apply(np.array): the users
\* in ascending order, each with its items in row order.
ForPredict(target) ==
    LET users == SortedSeq(Range(Column(target, "user_id")))
    IN [n \in 1..Len(users) |->
           [user_id |-> users[n],
            item_list |-> Column(SelectSeq(target, LAMBDA r : r.user_id = users[n]),
                                 "item_id")]]

\* model.rank_items(user_ix, user_item_data, item_ix): (item_ix, score) of
\* each selected item, sorted(..., key=-score) (a stable sort).
rank_items(item_ix) ==
    LET scores == [j \in 1..Len(item_ix) |-> rank_scores[item_ix[j] + 1]]
        order == ArgSortDesc(scores, "first")
    IN [j \in 1..Len(item_ix) |->
           [item_ix |-> item_ix[order[j]], score |-> Rat(scores[order[j]], 2)]]

\* The rows the loop body of model_predict appends for a user, leaving out
\* the rows of unknown users and of unknown items.
PredictedRowsKnownOnly(user_id, item_list) ==
    IF user_id \notin DOMAIN user_map[1] THEN <<>>
    ELSE LET known == SelectSeq(item_list, LAMBDA i : i \in DOMAIN item_map[1])
             ranked == rank_items([j \in 1..Len(known) |-> item_map[1][known[j]]])
         IN [j \in 1..Len(ranked) |->
                [user_id |-> user_id, item_id |-> item_index[1][ranked[j].item_ix + 1],
                 relevance |-> ranked[j].score]]

\* The rows the loop body of model_predict appends for a user: 0.0 for
\* every item of an unknown user; for a known user the ranked known items,
\* then 0.0 for every unknown item.
PredictedRowsOfUser(user_id, item_list) ==
    IF user_id \notin DOMAIN user_map[1]
    THEN [j \in 1..Len(item_list) |->
             [user_id |-> user_id, item_id |-> item_list[j], relevance |-> Zero]]
    ELSE LET known == SelectSeq(item_list, LAMBDA i : i \in DOMAIN item_map[1])
             unknown == SelectSeq(item_list, LAMBDA i : i \notin DOMAIN item_map[1])
             ranked == rank_items([j \in 1..Len(known) |-> item_map[1][known[j]]])
         IN [j \in 1..Len(ranked) |->
                [user_id |-> user_id, item_id |-> item_index[1][ranked[j].item_ix + 1],
                 relevance |-> ranked[j].score]]
            \o [j \in 1..Len(unknown) |->
                [user_id |-> user_id, item_id |-> unknown[j], relevance |-> Zero]]

\* pd.merge(left, right, how='inner', on=['user_id', 'item_id']): for each
\* left row, in order, every right row of its key.
MergeInner(left, right) ==
    Flatten([j \in 1..Len(left) |->
                SelectSeq(right, LAMBDA r : SameKey(r, left[j]))])

\* The relevance model_predict returns for a merged row: with pop_norm the
\* item's mean relevance (0.0 for an unknown item) is added, without it the
\* score is mapped from [-1, 1] to [0, 1].
FinalRelevance(row) ==
    IF pop_norm
    THEN RatAdd(row.relevance,
                IF row.item_id \in DOMAIN df_item_freq[1]
                THEN df_item_freq[1][row.item_id] ELSE Zero)
    ELSE RatHalf(RatAdd(row.relevance, One))

\* Before model_train get_item_user_matrix fails on a None attribute:
\* df_item_freq.rename with pop_norm, Series.map(user_map) without it.
UntrainedError ==
    IF pop_norm THEN "AttributeError: 'NoneType' object has no attribute 'rename'"
    ELSE "TypeError: 'NoneType' object is not callable"

\* ALSModel.model_train: the item means, the indexes and the maps
\* (model.fit is implicit's).
ALSModelTrain(df_log) ==
    /\ pc = "idle"
    /\ called' = "ALSModel.model_train"
    /\ df_item_freq' = Some(ItemFreq(df_log))
    /\ item_index' = Some(Unique(Column(df_log, "item_id")))
    /\ user_index' = Some(Unique(Column(df_log, "user_id")))
    /\ item_map' = Some(EnumerateMap(Unique(Column(df_log, "item_id"))))
    /\ user_map' = Some(EnumerateMap(Unique(Column(df_log, "user_id"))))
    /\ arg_log' = df_log
    /\ UNCHANGED otherVars
    /\ UNCHANGED <<configVars, trainVars, id_users, id_items, k, loopVars, pc, err,
                   result, storiesVars, pop_norm, rank_scores, predictVars>>

\* ALSModel.model_predict up to the loop over for_predict
\* (get_item_user_matrix(df_log_exclude) only feeds model.rank_items).
ALSModelPredictBegin(target) ==
    /\ pc = "idle"
    /\ called' = "ALSModel.model_predict"
    /\ IF user_map = None
       THEN /\ pc' = "raised"
            /\ err' = UntrainedError
            /\ UNCHANGED predictVars
       ELSE /\ df_log_predict' = target
            /\ for_predict' = ForPredict(target)
            /\ predict_ix' = 0
            /\ predicted_rows' = <<>>
            /\ pc' = "loop"
            /\ UNCHANGED err
    /\ UNCHANGED otherVars
    /\ UNCHANGED <<configVars, trainVars, argVars, loopVars, result, storiesVars,
                   alsVars>>

\* One pass of the loop over for_predict.items().
ALSModelPredictUser ==
    /\ pc = "loop"
    /\ predict_ix < Len(for_predict)
    /\ LET g == for_predict[predict_ix + 1]
       IN predicted_rows' = predicted_rows \o PredictedRowsOfUser(g.user_id, g.item_list)
    /\ predict_ix' = predict_ix + 1
    /\ UNCHANGED otherVars
    /\ UNCHANGED <<configVars, trainVars, argVars, loopVars, pc, err, result, called,
                   storiesVars, alsVars, df_log_predict, for_predict>>

\* After the loop: the inner merge with df_log_predict and the final
\* relevance.
ALSModelPredictReturn ==
    /\ pc = "loop"
    /\ predict_ix >= Len(for_predict)
    /\ LET predicted == MergeInner(df_log_predict, predicted_rows)
       IN result' = Some([j \in 1..Len(predicted) |->
                             [user_id |-> predicted[j].user_id,
                              item_id |-> predicted[j].item_id,
                              relevance |-> FinalRelevance(predicted[j])]])
    /\ pc' = "done"
    /\ UNCHANGED otherVars
    /\ UNCHANGED <<configVars, trainVars, argVars, loopVars, err, called, storiesVars,
                   alsVars, predictVars>>

\* One ALSModel right after construction.
InitALS ==
    /\ adapter = "ALSModel"
    /\ valid_batch_size = 1 /\ topk_tie = "first" /\ sort_tie = "first"
    /\ weights = None /\ training = TRUE /\ exclude_seen_items = FALSE
    /\ pop_norm \in BOOLEAN
    /\ rank_scores \in RankTables
    /\ PopularConstructed
    /\ ALSConstructed
    /\ NoCall
    /\ OtherConstructed

NextALS ==
    \/ \E df_log \in ALSTrainLogs : ALSModelTrain(df_log)
    \/ \E target \in Targets : ALSModelPredictBegin(target)
    \/ ALSModelPredictUser
    \/ ALSModelPredictReturn

SpecALS == InitALS /\ [][NextALS]_vars

\* ------------------------------------------- ALSModel.get_item_user_matrix

\* Rows of the logs given to get_item_user_matrix: known pairs (one of
\* them twice, with both relevances), an unknown user, an unknown item.
MatrixRows == {[user_id |-> 1, item_id |-> 1, relevance |-> 1],
               [user_id |-> 1, item_id |-> 1, relevance |-> 0],
               [user_id |-> 2, item_id |-> 1, relevance |-> 1],
               [user_id |-> 2, item_id |-> 2, relevance |-> 0],
               [user_id |-> 3, item_id |-> 1, relevance |-> 1],
               [user_id |-> 1, item_id |-> 3, relevance |-> 0]}
MatrixLogs == UNION {[1..n -> MatrixRows] : n \in 0..MaxLog}

\* A training log with one user, three items and a repeated pair.
ALSTrainLogsMore ==
    {<<[user_id |-> 3, item_id |-> 4, relevance |-> 1],
       [user_id |-> 3, item_id |-> 1, relevance |-> 0],
       [user_id |-> 3, item_id |-> 4, relevance |-> 0],
       [user_id |-> 3, item_id |-> 2, relevance |-> 1]>>}

\* The relevance column before the groupby: relevance - alpha with
\* pop_norm, {0: -1, 1: 1} without.
MatrixRelevance(row) ==
    IF pop_norm
    THEN LET a == df_item_freq[1][row.item_id]
         IN RatAdd(Rat(row.relevance, 1), Rat(-a.num, a.den))
    ELSE IF row.relevance = 1 THEN One ELSE Rat(-1, 1)

RECURSIVE RatSum(_, _)
RatSum(f, S) == IF S = {} THEN Zero
                ELSE LET x == CHOOSE y \in S : TRUE
                     IN RatAdd(f[x], RatSum(f, S \ {x}))

RatDiv(a, n) == Rat(a.num, a.den * n)

\* get_item_user_matrix: the rows that survive the merge with df_item_freq
\* (pop_norm) and the two maps, their mean relevance per (user, item), at
\* row item_map[item], column user_map[user] of a matrix of shape
\* (len(item_index), len(user_index)).
ItemUserMatrix(df_log) ==
    LET kept == {j \in 1..Len(df_log) :
                    /\ pop_norm => df_log[j].item_id \in DOMAIN df_item_freq[1]
                    /\ df_log[j].user_id \in DOMAIN user_map[1]
                    /\ df_log[j].item_id \in DOMAIN item_map[1]}
        cells == {<<item_map[1][df_log[j].item_id], user_map[1][df_log[j].user_id]>> :
                     j \in kept}
        rowsOf(c) == {j \in kept : <<item_map[1][df_log[j].item_id],
                                     user_map[1][df_log[j].user_id]>> = c}
    IN [shape |-> <<Len(item_index[1]), Len(user_index[1])>>,
        data |-> [c \in cells |->
                     RatDiv(RatSum([j \in rowsOf(c) |-> MatrixRelevance(df_log[j])],
                                   rowsOf(c)),
                            Cardinality(rowsOf(c)))]]

\* A call of ALSModel.get_item_user_matrix.
ALSGetItemUserMatrix(df_log) ==
    /\ pc = "idle"
    /\ called' = "ALSModel.get_item_user_matrix"
    /\ arg_log' = df_log
    /\ IF user_map = None
       THEN err' = UntrainedError /\ result' = None
       ELSE err' = "none" /\ result' = Some(ItemUserMatrix(df_log))
    /\ UNCHANGED otherVars
    /\ UNCHANGED <<configVars, trainVars, id_users, id_items, k, loopVars, pc,
                   storiesVars, alsVars, predictVars>>

NextALSMatrix ==
    \/ \E df_log \in ALSTrainLogs \cup ALSTrainLogsMore : ALSModelTrain(df_log)
    \/ \E df_log \in MatrixLogs : ALSGetItemUserMatrix(df_log)

SpecALSMatrix == InitALS /\ [][NextALSMatrix]_vars

\* ------------------------------------------------- calls that always raise

NotImplemented == "NotImplementedError"
ExcludeSeenError == "NotImplementedError: exclude_seen_items is not supported"
ConcatError == "ValueError: need at least one array to concatenate"

\* ALSModel.model_predict_top_k: raise NotImplementedError()
ALSModelPredictTopK(log, users, items, kk) ==
    /\ pc = "idle"
    /\ called' = "ALSModel.model_predict_top_k"
    /\ err' = NotImplemented
    /\ result' = None
    /\ UNCHANGED otherVars
    /\ UNCHANGED <<configVars, trainVars, argVars, loopVars, pc, storiesVars,
                   alsVars, predictVars>>

\* RandomModel.model_predict_top_k: raise NotImplementedError()
RandomModelPredictTopK(log, users, items, kk) ==
    /\ pc = "idle"
    /\ called' = "RandomModel.model_predict_top_k"
    /\ err' = NotImplemented
    /\ result' = None
    /\ UNCHANGED otherVars
    /\ UNCHANGED <<configVars, trainVars, argVars, loopVars, pc, storiesVars,
                   alsVars, predictVars>>

\* RandomModel.model_train: pass
RandomModelTrain(df_log) ==
    /\ pc = "idle"
    /\ called' = "RandomModel.model_train"
    /\ UNCHANGED otherVars
    /\ UNCHANGED <<configVars, trainVars, argVars, loopVars, pc, err, result,
                   storiesVars, alsVars, predictVars>>

\* StoriesRecModel.model_train: self.train(), then the optimiser moves the
\* parameters (to any of the tables).
StoriesModelTrain(df_log) ==
    /\ pc = "idle"
    /\ called' = "StoriesRecModel.model_train"
    /\ training' = TRUE
    /\ \E w \in WeightTables : weights' = Some(w)
    /\ UNCHANGED otherVars
    /\ UNCHANGED <<adapter, valid_batch_size, topk_tie, sort_tie, trainVars, argVars,
                   loopVars, pc, err, result, exclude_seen_items, alsVars, predictVars>>

\* df_scores of StoriesRecModel.model_predict: the forward pass of every
\* row of df_log_predict.
DfScores(target) ==
    [j \in 1..Len(target) |->
        [user_id |-> target[j].user_id, item_id |-> target[j].item_id,
         relevance |-> weights[1].score[target[j].user_id][target[j].item_id]]]

\* StoriesRecModel.model_predict with the raise deleted: the unmasked
\* scores are returned.
StoriesModelPredictNoRaise(target) ==
    /\ pc = "idle"
    /\ called' = "StoriesRecModel.model_predict"
    /\ training' = FALSE
    /\ IF target = <<>>
       THEN err' = ConcatError /\ result' = None
       ELSE err' = "none" /\ result' = Some(DfScores(target))
    /\ df_log_predict' = target
    /\ UNCHANGED otherVars
    /\ UNCHANGED <<configVars, trainVars, argVars, loopVars, pc, exclude_seen_items,
                   alsVars, for_predict, predict_ix, predicted_rows>>

\* StoriesRecModel.model_predict: self.eval(), the scores of all batches,
\* np.concatenate (which raises on no batch at all), and only then the
\* raise under config.exclude_seen_items.
StoriesModelPredict(target) ==
    /\ pc = "idle"
    /\ called' = "StoriesRecModel.model_predict"
    /\ training' = FALSE
    /\ IF target = <<>>
       THEN err' = ConcatError /\ result' = None
       ELSE IF exclude_seen_items
       THEN err' = ExcludeSeenError /\ result' = None
       ELSE err' = "none" /\ result' = Some(DfScores(target))
    /\ df_log_predict' = target
    /\ UNCHANGED otherVars
    /\ UNCHANGED <<configVars, trainVars, argVars, loopVars, pc, exclude_seen_items,
                   alsVars, for_predict, predict_ix, predicted_rows>>

\* The exclusion logs given to the calls that raise at once.
ShortLogs == {log \in Logs : Len(log) <= 1}

\* The target logs given to StoriesRecModel.model_predict: none or one row.
ShortTargets == {target \in Targets : Len(target) <= 1}

\* One instance of each adapter, right after construction.
InitAdapters ==
    /\ adapter = "all"
    /\ valid_batch_size = 1 /\ topk_tie = "first" /\ sort_tie = "first"
    /\ weights \in {Some(w) : w \in WeightTables}
    /\ training = TRUE
    /\ exclude_seen_items \in BOOLEAN
    /\ pop_norm = FALSE
    /\ rank_scores = <<0, 0>>
    /\ PopularConstructed
    /\ ALSConstructed
    /\ NoCall
    /\ OtherConstructed

NextAdapters ==
    \/ \E df_log \in TrainLogs :
           \/ PopularModelTrain(df_log)
           \/ StoriesModelTrain(df_log)
           \/ RandomModelTrain(df_log)
    \/ \E df_log \in ALSTrainLogs : ALSModelTrain(df_log)
    \/ \E log \in ShortLogs, users \in UserLists, items \in ItemLists, kk \in Ks :
           \/ ALSModelPredictTopK(log, users, items, kk)
           \/ RandomModelPredictTopK(log, users, items, kk)
    \/ \E target \in ShortTargets : StoriesModelPredict(target)

SpecAdapters == InitAdapters /\ [][NextAdapters]_vars

\* ------------------------------------------------------------ model_predict

\* Exclusion logs of model_predict: the pair (1, 1) not at all, once, or
\* repeated.
ExcludeLogs == {log \in Logs : \A j \in 1..Len(log) : log[j] = [user_id |-> 1, item_id |-> 1]}

\* pd.merge(df_scores, item_scores.rename('relevance'), how='left',
\* left_on='item_id', right_index=True) and fillna(0.0): one row per row
\* of df_log_predict (the index of item_scores has no duplicates).
PopularDfScores(target) ==
    [j \in 1..Len(target) |->
        [user_id |-> target[j].user_id, item_id |-> target[j].item_id,
         relevance |-> IF target[j].item_id \in DOMAIN get_item_scores
                       THEN Rat(get_item_scores[target[j].item_id], ItemScoresDen)
                       ELSE Zero]]

\* pd.merge(df_scores, df_log_exclude...assign(exclude_x=-1), how='left',
\* on=['user_id', 'item_id']), fillna(0) and the sum: a row of df_scores
\* once for every row of df_log_exclude with its key, with -1 added, or
\* once as it is when there is none.
MergeLeftExclude(df_scores, log) ==
    Flatten([j \in 1..Len(df_scores) |->
        LET hits == SelectSeq(log, LAMBDA r : SameKey(r, df_scores[j]))
        IN IF hits = <<>> THEN <<df_scores[j]>>
           ELSE [n \in 1..Len(hits) |->
                    [df_scores[j] EXCEPT
                        !.relevance = RatAdd(df_scores[j].relevance, Rat(-1, 1))]]])

\* PopularModel.model_predict
PopularModelPredict(log, target) ==
    /\ pc = "idle"
    /\ called' = "PopularModel.model_predict"
    /\ arg_log' = log
    /\ df_log_predict' = target
    /\ IF items_popularity = None
       THEN pc' = "raised" /\ err' = NoneError /\ result' = None
       ELSE /\ pc' = "done"
            /\ err' = "none"
            /\ result' = Some(IF exclude_seen_items
                              THEN MergeLeftExclude(PopularDfScores(target), log)
                              ELSE PopularDfScores(target))
    /\ UNCHANGED otherVars
    /\ UNCHANGED <<configVars, trainVars, id_users, id_items, k, loopVars,
                   storiesVars, alsVars, for_predict, predict_ix, predicted_rows>>

\* The values np.random.rand gives a row.
RandomRelevances == {Zero, Rat(1, 2)}

\* RandomModel.model_predict: a copy of df_log_predict with a random
\* relevance per row.
RandomModelPredict(log, target) ==
    /\ pc = "idle"
    /\ called' = "RandomModel.model_predict"
    /\ arg_log' = log
    /\ df_log_predict' = target
    /\ pc' = "done"
    /\ err' = "none"
    /\ \E rand \in [1..Len(target) -> RandomRelevances] :
           result' = Some([j \in 1..Len(target) |->
                              [user_id |-> target[j].user_id,
                               item_id |-> target[j].item_id,
                               relevance |-> rand[j]]])
    /\ UNCHANGED otherVars
    /\ UNCHANGED <<configVars, trainVars, id_users, id_items, k, loopVars,
                   storiesVars, alsVars, for_predict, predict_ix, predicted_rows>>

\* One instance of each adapter, right after construction, sharing config.
InitPredict ==
    /\ adapter = "all"
    /\ valid_batch_size = 1 /\ topk_tie = "first" /\ sort_tie = "first"
    /\ weights = Some(CHOOSE w \in WeightTables :
                          \A u \in UserIds : w.score[u] = <<9, 5, 1, 3>>)
    /\ training = TRUE
    /\ exclude_seen_items \in BOOLEAN
    /\ pop_norm \in BOOLEAN
    /\ rank_scores = <<2, -1>>
    /\ PopularConstructed
    /\ ALSConstructed
    /\ NoCall
    /\ OtherConstructed

NextPredict ==
    \/ \E df_log \in TrainLogs : PopularModelTrain(df_log)
    \/ \E df_log \in ALSTrainLogs : ALSModelTrain(df_log)
    \/ \E log \in ExcludeLogs, target \in ShortTargets : PopularModelPredict(log, target)
    \/ \E log \in ExcludeLogs, target \in ShortTargets : RandomModelPredict(log, target)
    \/ \E target \in ShortTargets : StoriesModelPredict(target)
    \/ \E target \in Targets : ALSModelPredictBegin(target)
    \/ ALSModelPredictUser
    \/ ALSModelPredictReturn

SpecPredict == InitPredict /\ [][NextPredict]_vars

\* ------------------------------------------- indexes under large encoders

\* Longest id list whose indexes are computed.
MaxIds == 2

\* Sizes of the encoders: few ids, the last size int16 holds, the first it
\* does not, and one beyond 2^16.
ItemEncoderSizes == {4, 32767, 32768, 65540}
UserEncoderSizes == {3, 40000}

\* Ids looked up: known to every encoder, known to the large ones only,
\* known to none (0 and 70000).
BigItemIds == {0, 4, 32767, 32768, 65540, 70000}
BigUserIds == {0, 3, 40000}
BigItemLists == UNION {[1..n -> BigItemIds] : n \in 0..MaxIds}
BigUserLists == UNION {[1..n -> BigUserIds] : n \in 0..MaxIds}

\* The two lookups of StoriesRecModel.model_predict_top_k, of the item
\* list and of a batch of users.
EncodeIds(users, items) ==
    /\ pc = "idle"
    /\ called' = "StoriesRecModel.model_predict_top_k"
    /\ id_users' = users /\ id_items' = items
    /\ t_item_id' = ItemIndexes(items)
    /\ t_user_id' = UserIndexes(users)
    /\ pc' = "indexed"
    /\ UNCHANGED <<configVars, trainVars, arg_log, k, loopVars, err, result,
                   storiesVars, alsVars, predictVars, restVars>>

InitEncode ==
    /\ adapter = "StoriesRecModel"
    /\ valid_batch_size = 1 /\ topk_tie = "first" /\ sort_tie = "first"
    /\ weights = None
    /\ training = TRUE /\ exclude_seen_items = FALSE
    /\ pop_norm = FALSE /\ rank_scores = <<>>
    /\ PopularConstructed
    /\ ALSConstructed
    /\ NoCall
    /\ user_encoder \in UserEncoderSizes
    /\ item_encoder \in ItemEncoderSizes
    /\ t_item_id = <<>> /\ t_user_id = <<>>
    /\ embed = Some(MixedEmbeddingNew(EmbedArgs(0, 3, 0, 3, 0)))
    /\ h_item = None
    /\ max_epoch = 1
    /\ NoTraining
    /\ NoDropout

NextEncode == \E users \in BigUserLists, items \in BigItemLists : EncodeIds(users, items)

SpecEncode == InitEncode /\ [][NextEncode]_vars

\* ------------------------------------------------- MixedEmbedding, any sizes

\* MixedEmbedding(...)
MixedEmbeddingInit(a) ==
    /\ pc = "idle"
    /\ called' = "MixedEmbedding.__init__"
    /\ embed' = Some(MixedEmbeddingNew(a))
    /\ h_item' = None
    /\ UNCHANGED <<configVars, trainVars, argVars, loopVars, pc, err, result,
                   storiesVars, alsVars, predictVars, indexVars, encoderVars,
                   epochVars, dropoutVars>>

\* MixedEmbedding.forward(fixed_vectors, item_id) on n ids.
MixedEmbeddingForward(n) ==
    /\ pc = "idle"
    /\ embed # None
    /\ called' = "MixedEmbedding.forward"
    /\ h_item' = Some(forward(embed[1], n))
    /\ UNCHANGED <<configVars, trainVars, argVars, loopVars, pc, err, result,
                   storiesVars, alsVars, predictVars, indexVars, encoderVars, embed,
                   epochVars, dropoutVars>>

InitEmbed ==
    /\ adapter = "StoriesRecModel"
    /\ valid_batch_size = 1 /\ topk_tie = "first" /\ sort_tie = "first"
    /\ weights = None
    /\ training = TRUE /\ exclude_seen_items = FALSE
    /\ pop_norm = FALSE /\ rank_scores = <<>>
    /\ PopularConstructed
    /\ ALSConstructed
    /\ NoCall
    /\ user_encoder = 3 /\ item_encoder = 4
    /\ t_item_id = <<>> /\ t_user_id = <<>>
    /\ embed = None
    /\ h_item = None
    /\ max_epoch = 1
    /\ NoTraining
    /\ NoDropout

NextEmbed ==
    \/ \E ofa \in FeatureSizes, learn \in FeatureSizes, fixed \in FeatureSizes,
          hidden \in HiddenSizes, pretrained \in FeatureSizes :
           MixedEmbeddingInit(EmbedArgs(ofa, learn, fixed, hidden, pretrained))
    \/ \E n \in BatchLengths : MixedEmbeddingForward(n)

SpecEmbed == InitEmbed /\ [][NextEmbed]_vars

\* ----------------------------------------- StoriesRecModel.model_train, by epoch

\* Largest config.max_epoch.
MaxEpoch == 3

\* The user embeddings model_train is run with: with and without a
\* one_for_all vector, a learned embedding and a pretrained one (of size 1
\* and of size 3).
UserEmbeddings ==
    {MixedEmbeddingNew(EmbedArgs(ofa, learn, 0, 3, pretrained)) :
        ofa \in {0, 3}, learn \in {0, 3}, pretrained \in FeatureSizes}

\* len(data_loader) of the training log.
DataLoaderLengths == {0, 1, 2}

NoEmbeddingError == "AttributeError: 'MixedEmbedding' object has no attribute 'embedding'"
ZeroDivisionError == "ZeroDivisionError: float division by zero"

\* StoriesRecModel.add_valid_fn
AddValidFn ==
    /\ pc = "idle"
    /\ called' = "StoriesRecModel.add_valid_fn"
    /\ valid_fn' = TRUE
    /\ UNCHANGED <<configVars, trainVars, argVars, loopVars, pc, err, result,
                   storiesVars, alsVars, predictVars, indexVars, encoderVars,
                   embedVars, dropoutVars, max_epoch, len_data_loader, n_epoch, requires_grad,
                   metrics, valid_calls>>

\* model_train up to the loop over the epochs: self.train(), the data
\* loader, metrics = [].
StoriesTrainBegin(batches) ==
    /\ pc = "idle"
    /\ called' = "StoriesRecModel.model_train"
    /\ training' = TRUE
    /\ len_data_loader' = batches
    /\ n_epoch' = 0
    /\ metrics' = <<>>
    /\ valid_calls' = 0
    /\ pc' = "epochs"
    /\ UNCHANGED <<configVars, trainVars, argVars, loopVars, err, result,
                   exclude_seen_items, alsVars, predictVars, indexVars, encoderVars,
                   embedVars, dropoutVars, max_epoch, valid_fn, requires_grad>>

\* The head of an epoch: requires_grad of embed_user.embedding is set to
\* False in epoch 1 under pretrained_embedding_size > 1 and to True
\* otherwise; a MixedEmbedding without an embedding raises.
StoriesTrainEpochBegin ==
    /\ pc = "epochs"
    /\ n_epoch < max_epoch
    /\ n_epoch' = n_epoch + 1
    /\ IF embed[1].embedding = None
       THEN pc' = "raised" /\ err' = NoEmbeddingError /\ UNCHANGED requires_grad
       ELSE /\ requires_grad' =
                   ~(n_epoch + 1 = 1 /\ embed[1].pretrained_embedding_size > 1)
            /\ pc' = "batches"
            /\ UNCHANGED err
    /\ UNCHANGED <<configVars, trainVars, argVars, loopVars, result, called,
                   storiesVars, alsVars, predictVars, indexVars, encoderVars,
                   embedVars, dropoutVars, max_epoch, valid_fn, len_data_loader, metrics,
                   valid_calls>>

\* The rest of an epoch: the batches (the optimiser moves the parameters),
\* epoch_loss / len(data_loader), valid_fn when it is set, metrics.append.
StoriesTrainEpochEnd ==
    /\ pc = "batches"
    /\ IF len_data_loader = 0
       THEN /\ pc' = "raised" /\ err' = ZeroDivisionError
            /\ UNCHANGED <<weights, valid_calls, metrics>>
       ELSE /\ \E w \in WeightTables : weights' = Some(w)
            /\ valid_calls' = IF valid_fn THEN valid_calls + 1 ELSE valid_calls
            /\ metrics' = Append(metrics, [epoch |-> n_epoch, scored |-> valid_fn])
            /\ pc' = "epochs"
            /\ UNCHANGED err
    /\ UNCHANGED <<adapter, valid_batch_size, topk_tie, sort_tie, trainVars, argVars,
                   loopVars, result, called, storiesVars, alsVars, predictVars,
                   indexVars, encoderVars, embedVars, dropoutVars, max_epoch, valid_fn,
                   len_data_loader, n_epoch, requires_grad>>

\* return metrics
StoriesTrainReturn ==
    /\ pc = "epochs"
    /\ n_epoch >= max_epoch
    /\ result' = Some(metrics)
    /\ pc' = "done"
    /\ UNCHANGED <<configVars, trainVars, argVars, loopVars, err, called,
                   storiesVars, alsVars, predictVars, otherVars>>

InitTrain ==
    /\ adapter = "StoriesRecModel"
    /\ valid_batch_size = 1 /\ topk_tie = "first" /\ sort_tie = "first"
    /\ weights \in {Some(w) : w \in WeightTables}
    /\ training = TRUE /\ exclude_seen_items = FALSE
    /\ pop_norm = FALSE /\ rank_scores = <<>>
    /\ PopularConstructed
    /\ ALSConstructed
    /\ pc = "idle"
    /\ arg_log = <<>> /\ id_users = <<>> /\ id_items = <<>> /\ k = 0
    /\ df_log_exclude = <<>> /\ a_items = <<>> /\ item_predict_row = <<>>
    /\ score_den = 0 /\ ix_start = 0 /\ batch_id_users = <<>>
    /\ t_drop_mask = <<>> /\ pivot_called = FALSE /\ user_item = <<>>
    /\ nn_predict = <<>> /\ s_predicted_users = <<>> /\ s_predicted_items = <<>>
    /\ df_log_predict = <<>> /\ for_predict = <<>> /\ predict_ix = 0
    /\ predicted_rows = <<>>
    /\ err = "none" /\ result = None /\ called = "__init__"
    /\ user_encoder = 3 /\ item_encoder = 4
    /\ t_item_id = <<>> /\ t_user_id = <<>>
    /\ embed \in {Some(m) : m \in UserEmbeddings}
    /\ h_item = None
    /\ max_epoch \in 0..MaxEpoch
    /\ NoTraining
    /\ NoDropout

NextTrain ==
    \/ AddValidFn
    \/ \E batches \in DataLoaderLengths : StoriesTrainBegin(batches)
    \/ StoriesTrainEpochBegin
    \/ StoriesTrainEpochEnd
    \/ StoriesTrainReturn

SpecTrain == InitTrain /\ [][NextTrain]_vars

\* ------------------------------------------------------ DropoutTrx.get_idx

\* Largest seq_len.
MaxSeqLen == 6

\* Bits of the significand of a double (binary64).
MantissaBits == 53

RECURSIVE Pow2(_)
Pow2(e) == IF e = 0 THEN 1 ELSE 2 * Pow2(e - 1)

\* The values of trx_dropout: -0.5, 0.0, 0.125, 0.25, 0.5, 0.75, 0.875,
\* 1.0, 2^-54 (about 5.6e-17) and 2^-60, each a double num / 2^exp.  The
\* constructor accepts any number.
Dropouts ==
    {Dyadic(0 - 1, 1), Dyadic(0, 0), Dyadic(1, 3), Dyadic(1, 2), Dyadic(1, 1),
     Dyadic(3, 2), Dyadic(7, 3), Dyadic(1, 0), Dyadic(1, MantissaBits + 1),
     Dyadic(1, MantissaBits + 7)}

\* self.trx_dropout > 0
Positive(p) == p.num > 0

\* 1 - self.trx_dropout in double arithmetic.  The difference is exact
\* while it fits the significand; 1 - 2^-exp with exp > MantissaBits is
\* nearer to 1.0 than to the double below it, 1 - 2^-MantissaBits (at
\* exp = MantissaBits + 1 it is half way and the tie goes to the even
\* significand, 1.0), so the result is 1.0.
OneMinus(p) ==
    IF p.exp > MantissaBits
    THEN Dyadic(1, 0)
    ELSE Dyadic(Pow2(p.exp) - p.num, p.exp)

\* int(x) of x = num / den: towards zero.
IntTrunc(num, den) == IF num >= 0 THEN num \div den ELSE 0 - ((0 - num) \div den)

\* int(seq_len * (1 - self.trx_dropout) + 1); the product and the sum of
\* these small dyadic numbers are exact.
SampleSize(p, n) ==
    LET q == OneMinus(p)
    IN IntTrunc(n * q.num + Pow2(q.exp), Pow2(q.exp))

\* np.arange(seq_len)
arange(n) == [i \in 1..n |-> i - 1]

SampleError == "ValueError: Cannot take a larger sample than population when 'replace=False'"

\* DropoutTrx.get_idx.  np.random.choice(seq_len, size, replace=False)
\* draws size different numbers of 0..seq_len-1, any of them, and raises
\* when size > seq_len; np.sort puts the draw in increasing order, which
\* leaves of the draw the set of its numbers.
GetIdx(n) ==
    /\ pc \in {"idle", "done"}
    /\ called' = "DropoutTrx.get_idx"
    /\ seq_len' = n
    /\ IF Positive(trx_dropout) /\ n > 0
       THEN IF SampleSize(trx_dropout, n) > n
            THEN pc' = "raised" /\ err' = SampleError /\ idx' = <<>>
            ELSE /\ \E choice \in SUBSET (0..(n - 1)) :
                       /\ Cardinality(choice) = SampleSize(trx_dropout, n)
                       /\ idx' = SortedSeq(choice)
                 /\ pc' = "done"
                 /\ UNCHANGED err
       ELSE /\ idx' = arange(n)
            /\ pc' = "done"
            /\ UNCHANGED err
    /\ UNCHANGED <<configVars, trainVars, argVars, loopVars, result, storiesVars,
                   alsVars, predictVars, indexVars, encoderVars, embedVars,
                   epochVars, trx_dropout>>

InitDropout ==
    /\ adapter = "all"
    /\ valid_batch_size = 1 /\ topk_tie = "first" /\ sort_tie = "first"
    /\ weights = None
    /\ training = TRUE /\ exclude_seen_items = FALSE
    /\ pop_norm = FALSE /\ rank_scores = <<>>
    /\ PopularConstructed
    /\ ALSConstructed
    /\ NoCall
    /\ user_encoder = 3 /\ item_encoder = 4
    /\ t_item_id = <<>> /\ t_user_id = <<>>
    /\ embed = None
    /\ h_item = None
    /\ max_epoch = 1
    /\ valid_fn = FALSE
    /\ len_data_loader = 0 /\ n_epoch = 0
    /\ requires_grad = TRUE
    /\ metrics = <<>> /\ valid_calls = 0
    /\ trx_dropout \in Dropouts
    /\ seq_len = 0
    /\ idx = <<>>

NextDropout == \E n \in 0..MaxSeqLen : GetIdx(n)

SpecDropout == InitDropout /\ [][NextDropout]_vars

\* ================================================================ claims
\* Checked under Spec.

\* The (user, item) pairs of the exclusion log as passed.
ExcludedPairs == {<<arg_log[j].user_id, arg_log[j].item_id>> : j \in 1..Len(arg_log)}

\* A call of model_predict_top_k has got past its preamble.
InCall == pc \in {"loop", "done", "raised"} /\ err # NoneError
\* The loop body has run at least once.
BatchSeen == InCall /\ batch_id_users # <<>>

\* The rows of the returned table that belong to a user, in table order.
ItemsOf(table, u) ==
    LET rows == SelectSeq(table, LAMBDA r : r.user_id = u)
    IN [j \in 1..Len(rows) |-> rows[j].item_id]

\* C1: no (user, item) pair of the exclusion log appears in the table
\* model_predict_top_k returns; with the log [(u1, i1)], the items
\* [i1, i2, i3] scored [0.9, 0.5, 0.1] and k = 2, user u1 gets [i2, i3].
C1_ExcludedPairNeverReturned ==
    pc = "done" =>
        /\ \A j \in 1..Len(result[1]) :
               <<result[1][j].user_id, result[1][j].item_id>> \notin ExcludedPairs
        /\ ( /\ adapter = "StoriesRecModel"
             /\ weights[1].score[1] = <<9, 5, 1, 3>>
             /\ arg_log = <<[user_id |-> 1, item_id |-> 1]>>
             /\ id_items = <<1, 2, 3>> /\ k = 2 /\ 1 \in Range(id_users) )
           => ItemsOf(result[1], 1) = <<2, 3>>

\* The whole loop as a function of the batch size: what the call raises and
\* the two columns it has collected.
RECURSIVE RunFrom(_, _)
RunFrom(ix, size) ==
    IF ix >= Len(id_users) THEN [err |-> "none", users |-> <<>>, items |-> <<>>]
    ELSE LET batch == BatchUsers(id_users, ix, size)
             st == BatchStep(batch)
         IN IF st.err # "none" THEN [err |-> st.err, users |-> <<>>, items |-> <<>>]
            ELSE LET rest == RunFrom(ix + size, size)
                 IN IF rest.err # "none" THEN rest
                    ELSE [err |-> "none",
                          users |-> RepeatEach(batch, UserRepeat(st.nn_predict)) \o rest.users,
                          items |-> TakeItems(a_items, Flatten(st.nn_predict)) \o rest.items]

\* What model_predict_top_k gives with a batch size: the error, or the table.
Outcome(size) ==
    LET run == RunFrom(0, size)
    IN IF run.err # "none" THEN [err |-> run.err, table |-> None]
       ELSE DataFrame(run.users, run.items)

\* C2: batching invariance.  The call, run with config.valid_batch_size,
\* ends as it would with every batch size from 1 (one user per batch) to one
\* more than the number of users (all at once): the same rows in the same
\* order, or the same error.
C2_BatchingInvariance ==
    (InCall /\ pc # "loop") =>
        \A size \in 1..(Len(id_users) + 1) :
            [err |-> err, table |-> result] = Outcome(size)

C2_Witness ==
    /\ pc = "done" /\ valid_batch_size = 2 /\ Len(id_users) = 3
    /\ \E r \in 1..Len(result[1]) : result[1][r].user_id = 3
    /\ \E j \in 1..Len(arg_log) : arg_log[j].user_id = 1
    /\ \E j \in 1..Len(arg_log) : arg_log[j].user_id = 2

\* The candidate items a user has that the exclusion log does not mask.
UnmaskedCount(u) ==
    Cardinality({c \in 1..Len(a_items) : <<u, a_items[c]>> \notin ExcludedPairs})

\* The place of a user in id_users.
Pos(u) == CHOOSE p \in 1..Len(id_users) : id_users[p] = u

\* C3: when k is at most the number of candidates the call returns a table
\* whose two columns have equal length, row j of the table being row j of
\* each; the users appear in id_users order, each user's rows contiguous;
\* and every user with at least k unmasked candidates has exactly k rows.
C3_TableShape ==
    (InCall /\ pc # "loop" /\ k <= Len(a_items)) =>
        /\ pc = "done" /\ err = "none" /\ result # None
        /\ LET t == result[1]
           IN /\ Len(t) = Len(s_predicted_users)
              /\ Len(t) = Len(s_predicted_items)
              /\ \A j \in 1..Len(t) : /\ t[j].user_id = s_predicted_users[j]
                                      /\ t[j].item_id = s_predicted_items[j]
              /\ \A j \in 1..Len(t) : t[j].user_id \in Range(id_users)
              /\ \A a, b \in 1..Len(t) :
                     a < b => Pos(t[a].user_id) <= Pos(t[b].user_id)
              /\ \A p \in 1..Len(id_users) :
                     UnmaskedCount(id_users[p]) >= k
                         => Len(ItemsOf(t, id_users[p])) = k

C3_Witness ==
    /\ pc = "done" /\ Len(id_users) = 3 /\ k = 2 /\ valid_batch_size = 2
    /\ Len(result[1]) = 6
    /\ UnmaskedCount(1) >= k /\ UnmaskedCount(1) < Len(a_items)

C5_MaskEntries ==
    BatchSeen =>
        /\ err # PivotError
        /\ DOMAIN t_drop_mask = 1..Len(batch_id_users)
        /\ \A r \in 1..Len(batch_id_users) :
               /\ DOMAIN t_drop_mask[r] = 1..Len(a_items)
               /\ \A c \in 1..Len(a_items) :
                      t_drop_mask[r][c] =
                          IF <<batch_id_users[r], a_items[c]>> \in ExcludedPairs
                          THEN 1 ELSE 0

\* A batch of two users, one of them masked, under a log that repeats a row
\* and holds a row of a user outside the batch.
C5_Witness ==
    /\ BatchSeen /\ Len(batch_id_users) = 2 /\ Len(arg_log) = MaxLog
    /\ \E a, b \in 1..Len(arg_log) : a < b /\ arg_log[a] = arg_log[b]
    /\ \E r \in 1..2, c \in 1..Len(a_items) : t_drop_mask[r][c] = 1
    /\ \E r \in 1..2 : \A c \in 1..Len(a_items) : t_drop_mask[r][c] = 0

\* C6: when no row of the exclusion log belongs to a user of the batch, the
\* mask is the all-zero matrix of (batch users x candidate items), pivot is
\* not called, and building the mask raises nothing.
C6_EmptyExclusion ==
    (BatchSeen /\ \A j \in 1..Len(arg_log) : arg_log[j].user_id \notin Range(batch_id_users)) =>
        /\ t_drop_mask = zeros(Len(batch_id_users), Len(a_items))
        /\ ~pivot_called
        /\ err # PivotError

\* A log that is not empty, none of whose rows is of the batch's users.
C6_Witness ==
    /\ BatchSeen /\ arg_log # <<>> /\ batch_id_users = <<3>>
    /\ \A j \in 1..Len(arg_log) : arg_log[j].user_id \notin Range(batch_id_users)
    /\ ~pivot_called
    /\ t_drop_mask = <<<<0, 0, 0>>>>

\* C10: when k is greater than the number of supplied items the call raises
\* torch.topk's error and returns nothing (with no user to score, the loop
\* never runs and the table is empty); no returned table repeats an item
\* for a user or holds an item that was not supplied; and PopularModel keeps
\* at least min(k, number of supplied items) candidates.
C10_KBeyondCandidates ==
    /\ (InCall /\ pc # "loop" /\ k > Len(id_items)) =>
           \/ pc = "raised" /\ err = TopKError /\ result = None
           \/ pc = "done" /\ id_users = <<>> /\ result = Some(<<>>)
    /\ pc = "done" =>
           /\ \A a, b \in 1..Len(result[1]) :
                  (a # b /\ result[1][a].user_id = result[1][b].user_id)
                      => result[1][a].item_id # result[1][b].item_id
           /\ \A a \in 1..Len(result[1]) : result[1][a].item_id \in Range(id_items)
    /\ (InCall /\ adapter = "PopularModel") => Len(a_items) >= Min(k, Len(id_items))

C10_Witness ==
    /\ adapter = "PopularModel" /\ pc = "raised" /\ err = TopKError
    /\ k > Len(id_items) /\ Len(a_items) = Len(id_items) /\ id_users # <<>>

\* The rows of relevance 1 the training log holds of an item, and in all.
InteractionCount(i) ==
    Cardinality({j \in 1..Len(train_log) :
                    train_log[j].item_id = i /\ train_log[j].relevance = 1})
TotalInteractions ==
    Cardinality({j \in 1..Len(train_log) : train_log[j].relevance = 1})

\* C7: PopularModel scores every candidate item, also one with no
\* interaction in the training log, (interaction_count + alpha) /
\* (total_interactions + beta), so that an item with a larger count has the
\* larger score.
C7_SmoothedScoreOfEveryCandidate ==
    (InCall /\ adapter = "PopularModel") =>
        /\ score_den = TotalInteractions + beta
        /\ \A c \in 1..Len(a_items) :
               item_predict_row[c] = InteractionCount(a_items[c]) + alpha
        /\ \A c1, c2 \in 1..Len(a_items) :
               InteractionCount(a_items[c1]) > InteractionCount(a_items[c2])
                   => item_predict_row[c1] > item_predict_row[c2]


\* ----------------------------------------------------------------- C8

\* A row of ALSModel.model_predict whose user or item the training log did
\* not have.
UnknownRow(row) ==
    row.user_id \notin DOMAIN user_map[1] \/ row.item_id \notin DOMAIN item_map[1]

ALSPredictCalled == called = "ALSModel.model_predict" /\ user_map # None

Unsupported(e) == e \in {NotImplemented, ExcludeSeenError}

\* The step is a call of an operation its adapter does not support.
UnsupportedCall ==
    \/ called' = "ALSModel.model_predict_top_k"
    \/ called' = "RandomModel.model_predict_top_k"
    \/ called' = "StoriesRecModel.model_predict" /\ exclude_seen_items

\* C9 as stated: every unsupported call raises NotImplementedError,
\* returns no result and leaves the state of every adapter unchanged.
C9_UnsupportedRaisesStateUnchanged ==
    [][UnsupportedCall =>
           /\ Unsupported(err')
           /\ result' = None
           /\ UNCHANGED <<configVars, trainVars, storiesVars, alsVars>>]_vars

\* C9, amended: the two model_predict_top_k raise NotImplementedError for
\* every input and change no state; StoriesRecModel.model_predict under
\* exclude_seen_items never returns a result, raising NotImplementedError
\* for every non-empty target log and ValueError (np.concatenate) for an
\* empty one; it raises only after scoring in eval mode, so the training
\* flag of that module is off afterwards, while its parameters, its config
\* and the state of every other adapter are unchanged.
C9_UnsupportedRaises ==
    [][UnsupportedCall =>
           /\ result' = None
           /\ UNCHANGED <<configVars, trainVars, exclude_seen_items, alsVars>>
           /\ IF called' = "StoriesRecModel.model_predict"
              THEN /\ training' = FALSE
                   /\ err' = IF df_log_predict' = <<>> THEN ConcatError
                             ELSE ExcludeSeenError
              ELSE /\ err' = NotImplemented
                   /\ UNCHANGED training]_vars

\* StoriesRecModel.model_predict has raised under exclude_seen_items, out
\* of training mode, next to a trained PopularModel and a trained ALSModel.
C9_Witness ==
    /\ called = "StoriesRecModel.model_predict" /\ exclude_seen_items
    /\ df_log_predict # <<>>
    /\ err = ExcludeSeenError /\ result = None
    /\ training = FALSE
    /\ items_popularity # None /\ user_map # None

\* ----------------------------------------------------------------- C11

Injective(f) == \A a, b \in DOMAIN f : a # b => f[a] # f[b]

\* index[map[x]] = x for every key, and the map is onto 0..len(index)-1.
DenseInverse(map, index) ==
    /\ Injective(map)
    /\ {map[x] : x \in DOMAIN map} = 0..(Len(index) - 1)
    /\ \A x \in DOMAIN map : index[map[x] + 1] = x

KnownPairs(log) ==
    {<<log[j].user_id, log[j].item_id>> :
        j \in {n \in 1..Len(log) : /\ log[n].user_id \in DOMAIN user_map[1]
                                   /\ log[n].item_id \in DOMAIN item_map[1]}}

ScoredBatch == BatchSeen /\ user_item # <<>>

\* -1.0 over the denominator of the scores.
Sentinel == -score_den

\* The place of a column in a row of nn_predict, 0 when it is not there.
RankOf(row, c) ==
    IF \E p \in 1..Len(row) : row[p] = c
    THEN CHOOSE p \in 1..Len(row) : row[p] = c ELSE 0

SuppliedScores == ReindexFillna(get_item_scores, id_items)

DistinctScores ==
    \A c, d \in 1..Len(id_items) : c # d => SuppliedScores[c] # SuppliedScores[d]

\* How many of the candidates the exclusion log holds for a user.
ExcludedCandidates(u) ==
    Cardinality({c \in 1..Len(a_items) : <<u, a_items[c]>> \in ExcludedPairs})

\* The k best of the full supplied item list for a user, the user's
\* exclusions masked as the loop body masks them.
FullRanking(u) ==
    LET mask == [c \in 1..Len(id_items) |->
                    IF <<u, id_items[c]>> \in ExcludedPairs THEN 1 ELSE 0]
        masked == MaskScores(<<mask>>, <<SuppliedScores>>, score_den)[1]
    IN TakeItems(id_items, torch_topk(masked, k, topk_tie))

\* C13: PopularModel.model_predict_top_k keeps the min(number of items,
\* k + avg_num_items) best items as candidates, and for every user with
\* at most avg_num_items excluded candidates it returns, the scores being
\* distinct, the k items, in the order, of ranking the full supplied list
\* under that user's exclusions.
C13_PreRankingEquivalence ==
    (adapter = "PopularModel" /\ pc = "done" /\ result # None) =>
        /\ Len(a_items) = Min(Len(id_items), k + avg_num_items[1])
        /\ \A u \in Range(id_users) :
               (DistinctScores /\ ExcludedCandidates(u) <= avg_num_items[1]) =>
                   ItemsOf(result[1], u) = FullRanking(u)

\* ----------------------------------------------------------------- C14

\* A call of model_predict of a trained adapter has ended.
PredictEnded ==
    \/ called = "PopularModel.model_predict" /\ items_popularity # None
    \/ called = "RandomModel.model_predict"
    \/ called = "StoriesRecModel.model_predict" /\ err = "none"
    \/ called = "ALSModel.model_predict" /\ user_map # None /\ pc \in {"done", "raised"}

\* How many rows of a table have the key of a row.
KeyCount(table, row) == Cardinality({j \in 1..Len(table) : SameKey(table[j], row)})

\* C14: model_predict of every adapter returns one relevance row per row
\* of the target log, with the same (user_id, item_id) pairs as often as
\* the target log has them, whatever the exclusion log and the target log
\* repeat or leave unknown.
C14_OneRowPerTargetRow ==
    PredictEnded =>
        /\ err = "none" /\ result # None
        /\ Len(result[1]) = Len(df_log_predict)
        /\ \A j \in 1..Len(df_log_predict) :
               KeyCount(result[1], df_log_predict[j]) =
                   KeyCount(df_log_predict, df_log_predict[j])

\* ----------------------------------------------------------------- C15

\* C15: the index handed to the scoring step is the encoder's index of a
\* known id and 0 of an unknown id, for users and items and every encoder
\* size; the lookup never raises; two ids with different encoder indexes
\* never get the same index.
C15_IndexIsEncoderIndex ==
    called = "StoriesRecModel.model_predict_top_k" =>
        /\ err = "none"
        /\ Len(t_item_id) = Len(id_items)
        /\ \A j \in 1..Len(t_item_id) :
               t_item_id[j] = EncoderGet(item_encoder, id_items[j])
        /\ \A i, j \in 1..Len(t_item_id) :
               EncoderGet(item_encoder, id_items[i]) # EncoderGet(item_encoder, id_items[j])
                   => t_item_id[i] # t_item_id[j]
        /\ \A j \in 1..Len(t_user_id) :
               t_user_id[j] = EncoderGet(user_encoder, id_users[j])

\* ----------------------------------------------------------------- C16

\* C16: for every combination of sizes MixedEmbedding.forward returns one
\* vector of width hidden_size per id, and the concatenated features have
\* the width of the transformation's in_features whenever it is used; also
\* when every feature size is 0 and one_for_all_size is set to 32.
C16_ForwardWidthIsHidden ==
    h_item # None =>
        /\ h_item[1].err = "none"
        /\ h_item[1].rows \in BatchLengths
        /\ h_item[1].width = embed[1].hidden_size
        /\ use_transformation(embed[1]) =>
               h_item[1].cat = embed[1].transformation[1]

\* ----------------------------------------------------------------- C17

\* C17: for every user embedding, model_train on a non-empty log runs the
\* epochs 1..max_epoch in order without raising and returns max_epoch
\* metrics entries with 'epoch' 1, ..., max_epoch; during epoch 1 the user
\* embedding table has requires_grad False exactly when
\* pretrained_embedding_size > 0, during every later epoch it has
\* requires_grad True; valid_fn, when set, has been called once per epoch.
C17_EpochsFreezeAndMetrics ==
    (called = "StoriesRecModel.model_train" /\ len_data_loader > 0) =>
        /\ pc # "raised"
        /\ n_epoch <= max_epoch
        /\ Len(metrics) = IF pc = "batches" THEN n_epoch - 1 ELSE n_epoch
        /\ \A j \in 1..Len(metrics) : metrics[j].epoch = j
        /\ valid_calls = IF valid_fn THEN Len(metrics) ELSE 0
        /\ pc = "batches" =>
               (requires_grad = FALSE <=>
                    (n_epoch = 1 /\ embed[1].pretrained_embedding_size > 0))
        /\ pc = "done" => result = Some(metrics) /\ Len(metrics) = max_epoch

\* ----------------------------------------------------------------- C18

\* floor(seq_len * (1 - trx_dropout) + 1) in exact arithmetic, for
\* 0 < trx_dropout <= 1: below 2^-MantissaBits the product
\* seq_len * trx_dropout is a positive number below 1, so the floor is
\* seq_len.
ExactCount(p, n) ==
    IF p.exp > MantissaBits
    THEN n
    ELSE IntTrunc(n * (Pow2(p.exp) - p.num) + Pow2(p.exp), Pow2(p.exp))

StrictlyIncreasing(s) == \A i \in 1..Len(s) : \A j \in 1..Len(s) : i < j => s[i] < s[j]

\* C18: get_idx(seq_len) with 0 < trx_dropout <= 1 and seq_len > 0 returns
\* floor(seq_len * (1 - trx_dropout) + 1) strictly increasing indexes of
\* 0..seq_len-1, at least one and at most seq_len of them; with
\* trx_dropout <= 0 or seq_len = 0 it returns 0, 1, ..., seq_len-1.
C18_KeptIndexes ==
    called = "DropoutTrx.get_idx" =>
        IF Positive(trx_dropout) /\ seq_len > 0
        THEN /\ pc = "done"
             /\ Len(idx) = ExactCount(trx_dropout, seq_len)
             /\ StrictlyIncreasing(idx)
             /\ \A i \in 1..Len(idx) : idx[i] \in 0..(seq_len - 1)
             /\ Len(idx) >= 1 /\ Len(idx) <= seq_len
        ELSE pc = "done" /\ idx = arange(seq_len)

====
